---- MODULE Spec2Model ----
(***************************************************************************)
(* A model of nica_algorithms.py: the three online learners bio_nica,      *)
(* two_layer_nsm and nonnegative_pca, their constructors, fit_next and     *)
(* flip_weights.                                                           *)
(*                                                                         *)
(* Numbers are exact rationals <<n, d>> (d > 0, lowest terms).  numpy      *)
(* arrays are sequences (vectors) and sequences of rows (matrices); the    *)
(* arrays a learner may share with its caller live in a heap of objects,   *)
(* so that `W = W0` is a reference copy, `W += ...` writes the object and  *)
(* `Whx = Whx + ...` binds a new one.                                      *)
(***************************************************************************)
EXTENDS Integers, Sequences, FiniteSets, TLC

VARIABLES heap, learner, last, calls

vars == <<heap, learner, last, calls>>

---------------------------------------------------------------------------
(* Exact rational arithmetic                                               *)

\* The largest numerator and denominator a number of the model may have.  A
\* result beyond it is Beyond, which every operation passes on; a call whose
\* outcome involves Beyond is outside the model.
MaxInt == 30000

Beyond == <<1, 0>>

IsBeyond(p) == p[2] = 0

Abs(n) == IF n < 0 THEN -n ELSE n

RECURSIVE Gcd(_, _)
Gcd(a, b) == IF b = 0 THEN a ELSE Gcd(b, a % b)

\* The rational n/d in lowest terms with a positive denominator.
Q(n, d) ==
  LET g == Gcd(Abs(n), Abs(d))
      s == IF d < 0 THEN -1 ELSE 1
  IN  <<s * (n \div g), s * (d \div g)>>

R(n) == <<n, 1>>

Bounded(p) == IF Abs(p[1]) > MaxInt \/ p[2] > MaxInt THEN Beyond ELSE p

RNeg(p) == IF IsBeyond(p) THEN Beyond ELSE <<-p[1], p[2]>>

RAdd(p, q) ==
  IF IsBeyond(p) \/ IsBeyond(q) THEN Beyond
  ELSE LET g == Gcd(p[2], q[2])
           l == (p[2] \div g) * q[2]
       IN  Bounded(Q(p[1] * (l \div p[2]) + q[1] * (l \div q[2]), l))

RSub(p, q) == RAdd(p, RNeg(q))

RMul(p, q) ==
  IF IsBeyond(p) \/ IsBeyond(q) THEN Beyond
  ELSE IF p[1] = 0 \/ q[1] = 0 THEN <<0, 1>>
  ELSE LET g1 == Gcd(Abs(p[1]), q[2])
           g2 == Gcd(Abs(q[1]), p[2])
       IN  Bounded(<<(p[1] \div g1) * (q[1] \div g2), (p[2] \div g2) * (q[2] \div g1)>>)

\* p / q, for q # 0.
RDiv(p, q) ==
  IF IsBeyond(q) THEN Beyond
  ELSE RMul(p, IF q[1] < 0 THEN <<-q[2], -q[1]>> ELSE <<q[2], q[1]>>)

\* p < q for numbers of the model, decided on the integer parts and then on
\* the reciprocals of the fractional parts, so that no product is formed.
RECURSIVE RLt(_, _)
RLt(p, q) ==
  LET fp == p[1] \div p[2]
      fq == q[1] \div q[2]
      rp == p[1] % p[2]
      rq == q[1] % q[2]
  IN  IF fp # fq THEN fp < fq
      ELSE IF rq = 0 THEN FALSE
      ELSE IF rp = 0 THEN TRUE
      ELSE RLt(<<q[2], rq>>, <<p[2], rp>>)

RLe(p, q) == ~RLt(q, p)

RMax(p, q) ==
  IF IsBeyond(p) \/ IsBeyond(q) THEN Beyond ELSE IF RLt(p, q) THEN q ELSE p

---------------------------------------------------------------------------
(* numpy arrays: vectors and matrices                                      *)

\* The sequence with the elements of f, evaluated once.
Array(f) == f \o <<>>

Rows(A) == Len(A)

\* Whether every number of a vector, and of a matrix, is a number of the model.
VFinite(v) == \A i \in 1..Len(v) : ~IsBeyond(v[i])

MFinite(A) == \A i \in 1..Len(A) : VFinite(A[i])

Cols(A) == Len(A[1])

Shape(A) == <<Rows(A), Cols(A)>>

\* np.zeros(n)
Zeros(n) == Array([i \in 1..n |-> R(0)])

\* np.eye(n)
Eye(n) == Array([i \in 1..n |-> Array([j \in 1..n |-> IF i = j THEN R(1) ELSE R(0)])])

\* Two one-dimensional lengths broadcast when equal or when one of them is 1.
Broadcastable(m, n) == m = n \/ m = 1 \/ n = 1

BLen(m, n) == IF m >= n THEN m ELSE n

\* Component i of a vector broadcast to a longer length.
BAt(v, i) == IF Len(v) = 1 THEN v[1] ELSE v[i]

\* a + b and a - b on vectors, with numpy's broadcasting.
VAdd(a, b) == Array([i \in 1..BLen(Len(a), Len(b)) |-> RAdd(BAt(a, i), BAt(b, i))])

VSub(a, b) == Array([i \in 1..BLen(Len(a), Len(b)) |-> RSub(BAt(a, i), BAt(b, i))])

VScale(r, v) == Array([i \in 1..Len(v) |-> RMul(r, v[i])])

VNeg(v) == Array([i \in 1..Len(v) |-> RNeg(v[i])])

\* A + B and A - B on matrices with the same number of rows, columns broadcast.
MAdd(A, B) == Array([i \in 1..Rows(A) |-> VAdd(A[i], B[i])])

MSub(A, B) == Array([i \in 1..Rows(A) |-> VSub(A[i], B[i])])

MScale(r, A) == Array([i \in 1..Rows(A) |-> VScale(r, A[i])])

RECURSIVE RSum(_)
RSum(v) == IF Len(v) = 0 THEN R(0) ELSE RAdd(v[1], RSum(Tail(v)))

Dot(a, b) == RSum(Array([i \in 1..Len(a) |-> RMul(a[i], b[i])]))

\* W @ x, for Cols(W) = Len(x).
MatVec(W, x) == Array([i \in 1..Rows(W) |-> Dot(W[i], x)])

Column(A, j) == Array([i \in 1..Rows(A) |-> A[i][j]])

\* A.T
Transpose(A) == Array([j \in 1..Cols(A) |-> Column(A, j)])

\* A @ B, for Cols(A) = Rows(B).
MatMul(A, B) ==
  Array([i \in 1..Rows(A) |-> Array([j \in 1..Cols(B) |-> Dot(A[i], Column(B, j))])])

\* np.outer(a, b)
Outer(a, b) ==
  Array([i \in 1..Len(a) |-> Array([j \in 1..Len(b) |-> RMul(a[i], b[j])])])

\* The sequence s without its k-th element.
Drop(s, k) == Array([i \in 1..(Len(s) - 1) |-> IF i < k THEN s[i] ELSE s[i + 1]])

\* The matrix A without row i and column j.
Minor(A, i, j) == Array([r \in 1..(Rows(A) - 1) |-> Drop(Drop(A, i)[r], j)])

\* np.linalg.det, by expansion along the first row.
RECURSIVE Det(_)
Det(A) ==
  IF Rows(A) = 1 THEN A[1][1]
  ELSE RSum(Array([j \in 1..Rows(A) |->
                    RMul(IF j % 2 = 1 THEN A[1][j] ELSE RNeg(A[1][j]),
                         Det(Minor(A, 1, j)))]))

\* Gauss-Jordan elimination of the n by 2n matrix B from column k on; <<>>
\* when a column has no pivot.
RECURSIVE Eliminate(_, _)
Eliminate(B, k) ==
  IF ~MFinite(B) THEN MScale(Beyond, B)
  ELSE IF k > Rows(B) THEN B
  ELSE
    LET P == {p \in k..Rows(B) : B[p][k] # R(0)}
    IN  IF P = {} THEN <<>>
        ELSE
          LET p    == CHOOSE q \in P : \A r \in P : q <= r
              S    == [B EXCEPT ![k] = B[p], ![p] = B[k]]
              rowk == VScale(RDiv(R(1), S[k][k]), S[k])
          IN  Eliminate(Array([i \in 1..Rows(B) |->
                                 IF i = k THEN rowk
                                 ELSE VSub(S[i], VScale(S[i][k], rowk))]),
                        k + 1)

\* np.linalg.inv(A) for a square A; <<>> when A is singular (LinAlgError).
Inv(A) ==
  LET n == Rows(A)
      B == Eliminate(Array([i \in 1..n |-> A[i] \o Eye(n)[i]]), 1)
  IN  IF B = <<>> THEN <<>>
      ELSE Array([i \in 1..n |-> SubSeq(B[i], n + 1, 2 * n)])

---------------------------------------------------------------------------
(* quadprog.solve_qp(G, a, C = np.eye(n), b = np.zeros(n))                 *)

\* The elements of a finite set of integers in increasing order.
RECURSIVE Sorted(_)
Sorted(S) ==
  IF S = {} THEN <<>>
  ELSE LET m == CHOOSE e \in S : \A f \in S : e <= f
       IN  <<m>> \o Sorted(S \ {m})

\* The leading k by k block of G.
Leading(G, k) == Array([i \in 1..k |-> Array([j \in 1..k |-> G[i][j]])])

\* The leading principal minors of G.
LeadingMinors(G) == Array([k \in 1..Rows(G) |-> Det(Leading(G, k))])

\* Positive definiteness of a symmetric matrix (Sylvester's criterion); the
\* solver factorizes G and raises ValueError when it is not positive definite.
IsPosDef(G) == \A k \in 1..Rows(G) : RLt(R(0), LeadingMinors(G)[k])

\* The stationary point with exactly the components in F free, the others 0.
QPPoint(G, a, F) ==
  LET f  == Sorted(F)
      GF == Array([i \in 1..Len(f) |-> Array([j \in 1..Len(f) |-> G[f[i]][f[j]]])])
      aF == Array([i \in 1..Len(f) |-> a[f[i]]])
      yF == IF F = {} THEN <<>> ELSE MatVec(Inv(GF), aF)
  IN  Array([i \in 1..Len(a) |->
               IF i \in F THEN yF[CHOOSE k \in 1..Len(f) : f[k] = i] ELSE R(0)])

\* The gradient G y - a of the objective 1/2 y'Gy - a'y.
QPGradient(G, a, y) == VSub(MatVec(G, y), a)

\* The optimality conditions of min 1/2 y'Gy - a'y subject to y >= 0.
QPOptimal(G, a, y) ==
  LET grad == QPGradient(G, a, y)
  IN  \A i \in 1..Len(a) :
        /\ RLe(R(0), y[i])
        /\ RLe(R(0), grad[i])
        /\ (y[i][1] = 0 \/ grad[i][1] = 0)

QPPoints(G, a) == {QPPoint(G, a, F) : F \in SUBSET (1..Len(a))}

\* The minimizer (unique for positive definite G).
QPArgmin(G, a) == CHOOSE y \in QPPoints(G, a) : QPOptimal(G, a, y)

\* solve_qp(G, a, np.eye(n), np.zeros(n))[0], or the failure it raises.
solve_qp(G, a) ==
  IF ~VFinite(LeadingMinors(G)) THEN [status |-> "beyond", y |-> <<>>]
  ELSE IF ~IsPosDef(G) THEN [status |-> "not positive definite", y |-> <<>>]
  ELSE IF \E y \in QPPoints(G, a) : ~VFinite(y) \/ ~VFinite(QPGradient(G, a, y))
       THEN [status |-> "beyond", y |-> <<>>]
  ELSE [status |-> "ok", y |-> QPArgmin(G, a)]

---------------------------------------------------------------------------
(* Learner objects                                                         *)

\* Python's None for an optional number, and for an optional array (no object).
NoneR == <<0, 0>>

NoneRef == 0

\* A learner slot before construction.  The fields are those the three
\* classes set in __init__; a field a class does not have stays empty.
NoLearner ==
  [kind |-> "none", s_dim |-> 0, x_dim |-> 0, t |-> 0,
   eta0 |-> NoneR, decay |-> NoneR, tau |-> NoneR,
   x_bar |-> <<>>, c_bar |-> <<>>, h_bar |-> <<>>, g_bar |-> <<>>,
   W |-> NoneRef, M |-> NoneRef,
   Whx |-> NoneRef, Wgh |-> NoneRef, Wyh |-> NoneRef, Wyy |-> NoneRef]

\* The array an attribute refers to.
Deref(H, ref) == IF ref = NoneRef THEN <<>> ELSE H[ref]

\* The observable value of a learner: its counter, running means and the
\* contents of its weight matrices.
View(L, H) ==
  [t |-> L.t, x_bar |-> L.x_bar, c_bar |-> L.c_bar, h_bar |-> L.h_bar,
   g_bar |-> L.g_bar, W |-> Deref(H, L.W), M |-> Deref(H, L.M),
   Whx |-> Deref(H, L.Whx), Wgh |-> Deref(H, L.Wgh),
   Wyh |-> Deref(H, L.Wyh), Wyy |-> Deref(H, L.Wyy)]

\* The record of the most recent call: what was called on which learner with
\* which arguments, how it ended, what it returned, the learner's value before
\* the call and the lateral matrix before the degeneracy guard.
NoCall ==
  [op |-> "none", l |-> 0, kind |-> "none", outcome |-> "none",
   s_dim |-> 0, x_dim |-> 0,
   W0 |-> NoneRef, M0 |-> NoneRef, Whx0 |-> NoneRef, Wgh0 |-> NoneRef,
   Wyh0 |-> NoneRef, Wyy0 |-> NoneRef,
   x |-> <<>>, j |-> 0, y |-> <<>>, pre |-> <<>>, raw |-> <<>>]

---------------------------------------------------------------------------
(* Constructors                                                            *)

\* bio_nica.__init__: the hyperparameters, from the dataset's preset unless given.
BioNicaHyper(dataset, eta0, decay, tau) ==
  LET d == CASE dataset = "3-dim_synthetic" ->
                  [eta0 |-> Q(1, 10), decay |-> Q(1, 100), tau |-> Q(8, 10)]
             [] dataset = "10-dim_synthetic" ->
                  [eta0 |-> Q(1, 1000), decay |-> Q(1, 10000), tau |-> Q(3, 100)]
             [] dataset = "image" ->
                  [eta0 |-> Q(1, 1000), decay |-> Q(1, 1000000), tau |-> Q(1, 10)]
             [] OTHER ->
                  [eta0 |-> Q(1, 10), decay |-> Q(1, 1000), tau |-> Q(1, 2)]
  IN  [eta0  |-> IF eta0 = NoneR THEN d.eta0 ELSE eta0,
       decay |-> IF decay = NoneR THEN d.decay ELSE decay,
       tau   |-> IF tau = NoneR THEN d.tau ELSE tau]

\* two_layer_nsm.__init__: eta0 and decay.
NsmHyper(dataset, eta0, decay) ==
  LET d == CASE dataset = "3-dim_synthetic" ->
                  [eta0 |-> Q(1, 10), decay |-> Q(1, 10000000)]
             [] dataset = "10-dim_synthetic" ->
                  [eta0 |-> Q(1, 10), decay |-> Q(1, 1000000)]
             [] OTHER ->
                  [eta0 |-> Q(1, 10), decay |-> Q(1, 1000)]
  IN  [eta0  |-> IF eta0 = NoneR THEN d.eta0 ELSE eta0,
       decay |-> IF decay = NoneR THEN d.decay ELSE decay]

\* nonnegative_pca.__init__: eta0 and decay.
PcaHyper(dataset, eta0, decay) ==
  LET d == CASE dataset = "3-dim_synthetic" ->
                  [eta0 |-> Q(1, 10), decay |-> Q(1, 100000)]
             [] dataset = "10-dim_synthetic" ->
                  [eta0 |-> Q(1, 100), decay |-> Q(1, 100000)]
             [] OTHER ->
                  [eta0 |-> Q(1, 10), decay |-> Q(1, 1000)]
  IN  [eta0  |-> IF eta0 = NoneR THEN d.eta0 ELSE eta0,
       decay |-> IF decay = NoneR THEN d.decay ELSE decay]

\* `A = A0` when the caller gives A0 (the same object), else a new array.
Bind(H, A0, fresh) ==
  IF A0 = NoneRef THEN [H |-> Append(H, fresh), ref |-> Len(H) + 1]
  ELSE [H |-> H, ref |-> A0]

\* The shape assertions of bio_nica.__init__.
BioNicaShapesOk(H, s, x, M0, W0) ==
  /\ M0 # NoneRef => Shape(H[M0]) = <<s, s>>
  /\ W0 # NoneRef => Shape(H[W0]) = <<s, x>>

\* The shape assertions of two_layer_nsm.__init__.
NsmShapesOk(H, s, x, Whx0, Wgh0, Wyh0, Wyy0) ==
  /\ Whx0 # NoneRef => Shape(H[Whx0]) = <<s, s>>
  /\ Wgh0 # NoneRef => Shape(H[Wgh0]) = <<s, s>>
  /\ Wyh0 # NoneRef => Shape(H[Wyh0]) = <<s, s>>
  /\ Wyy0 # NoneRef => Shape(H[Wyy0]) = <<s, s>>

\* The shape assertion of nonnegative_pca.__init__.
PcaShapesOk(H, s, x, W0) == W0 # NoneRef => Shape(H[W0]) = <<s, x>>

\* bio_nica.__init__ past its assertions; Wr is the random draw for W.
BioNicaNew(H, s, x, dataset, M0, W0, Wr, eta0, decay, tau) ==
  LET hp == BioNicaHyper(dataset, eta0, decay, tau)
      bM == Bind(H, M0, Eye(s))
      bW == Bind(bM.H, W0, Wr)
  IN  [H |-> bW.H,
       L |-> [NoLearner EXCEPT !.kind = "bio_nica", !.s_dim = s, !.x_dim = x,
                !.t = 0, !.eta0 = hp.eta0, !.decay = hp.decay, !.tau = hp.tau,
                !.x_bar = Zeros(x), !.c_bar = Zeros(s),
                !.M = bM.ref, !.W = bW.ref]]

\* two_layer_nsm.__init__ past its assertions; Whxr and Wyhr are the random draws.
NsmNew(H, s, x, dataset, Whx0, Wgh0, Wyh0, Wyy0, Whxr, Wyhr, eta0, decay) ==
  LET hp   == NsmHyper(dataset, eta0, decay)
      bWhx == Bind(H, Whx0, Whxr)
      bWgh == Bind(bWhx.H, Wgh0, Eye(s))
      bWyh == Bind(bWgh.H, Wyh0, Wyhr)
      bWyy == Bind(bWyh.H, Wyy0, Eye(s))
  IN  [H |-> bWyy.H,
       L |-> [NoLearner EXCEPT !.kind = "two_layer_nsm", !.s_dim = s, !.x_dim = x,
                !.t = 0, !.eta0 = hp.eta0, !.decay = hp.decay,
                !.x_bar = Zeros(x), !.h_bar = Zeros(s), !.g_bar = Zeros(s),
                !.Whx = bWhx.ref, !.Wgh = bWgh.ref,
                !.Wyh = bWyh.ref, !.Wyy = bWyy.ref]]

\* nonnegative_pca.__init__ past its assertion.
PcaNew(H, s, x, dataset, W0, Wr, eta0, decay) ==
  LET hp == PcaHyper(dataset, eta0, decay)
      bW == Bind(H, W0, Wr)
  IN  [H |-> bW.H,
       L |-> [NoLearner EXCEPT !.kind = "nonnegative_pca", !.s_dim = s, !.x_dim = x,
                !.t = 0, !.eta0 = hp.eta0, !.decay = hp.decay, !.W = bW.ref]]

---------------------------------------------------------------------------
(* fit_next                                                                *)

\* The determinant below which a lateral matrix counts as degenerate (10**-4),
\* and the multiple of the identity then added (.1).
DetThreshold == Q(1, 10000)

Ridge == Q(1, 10)

\* The divisor of the running mean c_bar of bio_nica.
CBarWindow == 100

\* The offset of the whitening layer's learning rate 1/(100+t).
WhiteningOffset == 100

\* mean + (sample - mean)/n
RunningMean(mean, sample, n) == VAdd(mean, VScale(Q(1, n), VSub(sample, mean)))

\* step = self.eta0/(1+self.decay*t)
Step(L) == RDiv(L.eta0, RAdd(R(1), RMul(L.decay, R(L.t))))

\* if np.linalg.det(M)<10**-4: M += .1*np.eye(s_dim)
Stabilize(M) ==
  IF IsBeyond(Det(M)) THEN MScale(Beyond, M)
  ELSE IF RLt(Det(M), DetThreshold) THEN MAdd(M, MScale(Ridge, Eye(Rows(M))))
  ELSE M

\* What a failing call raises: a failed assert, numpy's shape mismatch, numpy's
\* out-of-range index, the solver's rejection of its matrix, a singular matrix.
AssertionError == "AssertionError"

ShapeMismatch == "ValueError: shapes not aligned"

IndexError == "IndexError"

NotPosDef == "ValueError: matrix G is not positive definite"

Singular == "LinAlgError: Singular matrix"

\* A call that raises `error` and leaves learner L and heap H as given.
Raise(error, L, H) == [outcome |-> error, y |-> <<>>, L |-> L, H |-> H, raw |-> <<>>]

\* A variant of bio_nica.fit_next in which the running means are updated before
\* the solver is called rather than after it.
BioNicaFitNextMeansFirst(L, H, x) ==
  IF Len(x) # L.x_dim THEN Raise(AssertionError, L, H)
  ELSE
    LET c     == MatVec(H[L.W], x)
        x_bar == RunningMean(L.x_bar, x, L.t + 1)
        c_bar == RunningMean(L.c_bar, c, CBarWindow)
        L1    == [L EXCEPT !.x_bar = x_bar, !.c_bar = c_bar]
        sol   == solve_qp(H[L.M], c)
    IN  IF sol.status = "beyond" THEN Raise("beyond", L, H)
        ELSE IF sol.status # "ok" THEN Raise(NotPosDef, L1, H)
        ELSE
          LET y     == sol.y
              step  == Step(L)
              H1    == [H EXCEPT ![L.W] =
                          MAdd(@, MScale(RMul(R(2), step),
                                         MSub(Outer(y, x),
                                              Outer(VSub(c, c_bar), VSub(x, x_bar)))))]
              H2    == [H1 EXCEPT ![L.M] =
                          MAdd(@, MScale(RDiv(step, L.tau), MSub(Outer(y, y), @)))]
              H3    == [H2 EXCEPT ![L.M] = Stabilize(@)]
          IN  [outcome |-> "ok", y |-> y, L |-> [L1 EXCEPT !.t = @ + 1],
               H |-> H3, raw |-> H2[L.M]]

\* bio_nica.fit_next(x)
BioNicaFitNext(L, H, x) ==
  IF Len(x) # L.x_dim THEN Raise(AssertionError, L, H)
  ELSE
    LET c   == MatVec(H[L.W], x)
        sol == solve_qp(H[L.M], c)
    IN  IF sol.status = "beyond" THEN Raise("beyond", L, H)
        ELSE IF sol.status # "ok" THEN Raise(NotPosDef, L, H)
        ELSE
          LET y     == sol.y
              x_bar == RunningMean(L.x_bar, x, L.t + 1)
              c_bar == RunningMean(L.c_bar, c, CBarWindow)
              step  == Step(L)
              H1    == [H EXCEPT ![L.W] =
                          MAdd(@, MScale(RMul(R(2), step),
                                         MSub(Outer(y, x),
                                              Outer(VSub(c, c_bar), VSub(x, x_bar)))))]
              H2    == [H1 EXCEPT ![L.M] =
                          MAdd(@, MScale(RDiv(step, L.tau), MSub(Outer(y, y), @)))]
              H3    == [H2 EXCEPT ![L.M] = Stabilize(@)]
          IN  [outcome |-> "ok", y |-> y,
               L |-> [L EXCEPT !.x_bar = x_bar, !.c_bar = c_bar, !.t = @ + 1],
               H |-> H3, raw |-> H2[L.M]]

\* two_layer_nsm.fit_next(x)
NsmFitNext(L, H, x) ==
  LET Whx  == H[L.Whx]
      Wgh  == H[L.Wgh]
      Ginv == Inv(MatMul(Transpose(Wgh), Wgh))
  IN
  IF Ginv = <<>> THEN Raise(Singular, L, H)
  ELSE IF ~MFinite(Ginv) THEN Raise("beyond", L, H)
  ELSE IF Cols(Whx) # Len(x) THEN Raise(ShapeMismatch, L, H)
  ELSE IF ~Broadcastable(Len(x), Len(L.x_bar)) THEN Raise(ShapeMismatch, L, H)
  ELSE
    LET h     == MatVec(MatMul(Ginv, Whx), x)
        g     == MatVec(Wgh, h)
        x_bar == RunningMean(L.x_bar, x, L.t + 1)
        h_bar == RunningMean(L.h_bar, h, L.t + 1)
        g_bar == RunningMean(L.g_bar, g, L.t + 1)
        rate  == Q(1, WhiteningOffset + L.t)
        bWhx  == Bind(H, NoneRef,
                      MAdd(Whx, MScale(rate, MSub(Outer(VSub(h, h_bar), VSub(x, x_bar)),
                                                 Whx))))
        bWgh  == Bind(bWhx.H, NoneRef,
                      MAdd(Wgh, MScale(rate, MSub(Outer(VSub(g, g_bar), VSub(h, h_bar)),
                                                 Wgh))))
        L1    == [L EXCEPT !.x_bar = x_bar, !.h_bar = h_bar, !.g_bar = g_bar,
                           !.Whx = bWhx.ref, !.Wgh = bWgh.ref]
        c     == MatVec(H[L.Wyh], h)
        sol   == solve_qp(H[L.Wyy], c)
    IN  IF sol.status = "beyond" THEN Raise("beyond", L, H)
        ELSE IF sol.status # "ok" THEN Raise(NotPosDef, L1, bWgh.H)
        ELSE
          LET y     == sol.y
              step  == Step(L)
              bWyh  == Bind(bWgh.H, NoneRef,
                            MAdd(H[L.Wyh], MScale(step, MSub(Outer(y, h), H[L.Wyh]))))
              rawyy == MAdd(H[L.Wyy], MScale(step, MSub(Outer(y, y), H[L.Wyy])))
              bWyy  == Bind(bWyh.H, NoneRef, Stabilize(rawyy))
          IN  [outcome |-> "ok", y |-> y,
               L |-> [L1 EXCEPT !.Wyh = bWyh.ref, !.Wyy = bWyy.ref, !.t = @ + 1],
               H |-> bWyy.H, raw |-> rawyy]

\* A variant of the rectification that lets the projection through as it is.
RectifyNone(v) == Array([i \in 1..Len(v) |-> v[i]])

\* np.maximum(v, 0)
Rectify(v) == Array([i \in 1..Len(v) |-> RMax(v[i], R(0))])

\* A variant of nonnegative_pca.fit_next that stores the step counter it read.
PcaFitNextSameStep(L, H, x) ==
  IF Len(x) # L.x_dim THEN Raise(AssertionError, L, H)
  ELSE
    LET W    == H[L.W]
        y    == Rectify(MatVec(W, x))
        step == Step(L)
        H1   == [H EXCEPT ![L.W] =
                   MAdd(@, MScale(step, MSub(Outer(y, x), MatMul(Outer(y, y), W))))]
    IN  [outcome |-> "ok", y |-> y, L |-> [L EXCEPT !.t = L.t],
         H |-> H1, raw |-> <<>>]

\* nonnegative_pca.fit_next(x)
PcaFitNext(L, H, x) ==
  IF Len(x) # L.x_dim THEN Raise(AssertionError, L, H)
  ELSE
    LET W    == H[L.W]
        y    == Rectify(MatVec(W, x))
        step == Step(L)
        H1   == [H EXCEPT ![L.W] =
                   MAdd(@, MScale(step, MSub(Outer(y, x), MatMul(Outer(y, y), W))))]
    IN  [outcome |-> "ok", y |-> y, L |-> [L EXCEPT !.t = L.t + 1],
         H |-> H1, raw |-> <<>>]

---------------------------------------------------------------------------
(* flip_weights                                                            *)

\* A variant of the row negation that negates the whole matrix.
NegateAll(A, j) == Array([i \in 1..Rows(A) |-> VNeg(A[i])])

\* A[j,:] = -A[j,:] for a row index 0 <= j < Rows(A).
NegateRow(A, j) == [A EXCEPT ![j + 1] = VNeg(@)]

\* bio_nica.flip_weights(j)
BioNicaFlipWeights(L, H, j) ==
  IF ~(0 <= j /\ j < L.s_dim) THEN Raise(AssertionError, L, H)
  ELSE [Raise("ok", L, H) EXCEPT !.H = [H EXCEPT ![L.W] = NegateRow(@, j)]]

\* two_layer_nsm.flip_weights(j)
NsmFlipWeights(L, H, j) ==
  IF ~(0 <= j /\ j < L.s_dim) THEN Raise(AssertionError, L, H)
  ELSE [Raise("ok", L, H) EXCEPT !.H = [H EXCEPT ![L.Wyh] = NegateRow(@, j)]]

\* nonnegative_pca.flip_weights(j): no assertion; numpy counts a negative row
\* index from the end and raises IndexError outside -rows <= j < rows.
PcaFlipWeights(L, H, j) ==
  LET n == Rows(H[L.W])
  IN  IF j < -n \/ j >= n THEN Raise(IndexError, L, H)
      ELSE [Raise("ok", L, H) EXCEPT
              !.H = [H EXCEPT ![L.W] = NegateRow(@, IF j < 0 THEN j + n ELSE j)]]

---------------------------------------------------------------------------
(* The calls a program makes, with their arguments drawn from small sets    *)

\* The most fit_next calls made on one learner.
MaxCalls == 2

Learners == {1}

\* The matrices the caller owns and may pass as initial guesses:
\* 1: the 2x2 identity, 2: a symmetric 2x2 matrix that is not positive
\* definite, 3: a 2x2 matrix, 4: a 2x1 matrix.
CallerArrays ==
  << Eye(2),
     <<<<R(0), R(1)>>, <<R(1), R(0)>>>>,
     <<<<R(1), R(1)>>, <<R(0), R(1)>>>>,
     <<<<R(1)>>, <<R(1)>>>> >>

\* What the caller passes as a lateral matrix, and as a forward matrix.
LateralRefs == {NoneRef, 1, 2, 4}

ForwardRefs == {NoneRef, 3, 4}

CallerRefs == 1..Len(CallerArrays)

SDims == {2}

XDims == {1, 2}

\* Hyperparameter arguments: eta0 and tau left to the preset (eta0 = 0.1,
\* tau = 0.5); eta0 = 0.5 and eta0 = 1 with a decaying step; tau = 0.03, the
\* value of the 10-dim preset, with the default eta0.  decay is always given
\* (0 for a constant step, 1 for step = eta0/(1+t)).
Hypers ==
  { [eta0 |-> NoneR, decay |-> R(0), tau |-> NoneR],
    [eta0 |-> Q(1, 2), decay |-> R(1), tau |-> NoneR],
    [eta0 |-> R(1), decay |-> R(1), tau |-> NoneR],
    [eta0 |-> NoneR, decay |-> R(0), tau |-> Q(3, 100)] }

DefaultHyper == [eta0 |-> NoneR, decay |-> R(0), tau |-> NoneR]

\* Input samples of length 1 and 2.
XInputs == {<<R(1)>>, <<R(0), R(0)>>, <<R(1), R(0)>>, <<R(-1), R(1)>>}

\* Row indices passed to flip_weights.
JInputs == {-1, 0, 2}

\* np.random.randn(s, x) with each row divided by its norm: matrices with rows
\* of norm 1.
RandnUnitRows(s, x) ==
  { Array([i \in 1..s |->
             Array([j \in 1..x |-> IF j = ((i - 1) % x) + 1 THEN R(sign) ELSE R(0)])]) :
      sign \in {1, -1} }

\* The random draw does not matter when the caller gives the matrix.
Draw(A0, s, x) ==
  IF A0 = NoneRef THEN RandnUnitRows(s, x) ELSE {Eye(1)}

\* The constructor calls made: with no initial matrices under each of the
\* hyperparameter settings, and with the caller's matrices under a preset.
BioNicaArgs ==
  [s : SDims, x : XDims, dataset : {"None"}, M0 : {NoneRef}, W0 : {NoneRef}, hp : Hypers]
  \cup
  [s : SDims, x : XDims, dataset : {"3-dim_synthetic"}, M0 : LateralRefs,
   W0 : ForwardRefs, hp : {DefaultHyper}]

NsmArgs ==
  [s : SDims, x : XDims, dataset : {"None"}, Whx0 : {NoneRef}, Wgh0 : {NoneRef},
   Wyh0 : {NoneRef}, Wyy0 : {NoneRef}, hp : Hypers]
  \cup
  [s : SDims, x : XDims, dataset : {"3-dim_synthetic"}, Whx0 : ForwardRefs,
   Wgh0 : {NoneRef, 1, 4}, Wyh0 : ForwardRefs, Wyy0 : LateralRefs, hp : {DefaultHyper}]

PcaArgs ==
  [s : SDims, x : XDims, dataset : {"None"}, W0 : {NoneRef}, hp : Hypers]
  \cup
  [s : SDims, x : XDims, dataset : {"3-dim_synthetic"}, W0 : ForwardRefs,
   hp : {DefaultHyper}]

ConstructCall(l, kind, s, x) ==
  [NoCall EXCEPT !.op = "construct", !.l = l, !.kind = kind, !.s_dim = s, !.x_dim = x]

\* A constructor that fails an assertion creates no learner.
ConstructFails(call) ==
  /\ last' = [call EXCEPT !.outcome = AssertionError]
  /\ calls' = [calls EXCEPT ![call.l].constructed = TRUE]
  /\ UNCHANGED <<heap, learner>>

ConstructReturns(l, call, new) ==
  /\ heap' = new.H
  /\ learner' = [learner EXCEPT ![l] = new.L]
  /\ last' = [call EXCEPT !.outcome = "ok"]
  /\ calls' = [calls EXCEPT ![l].constructed = TRUE]

\* l = bio_nica(s, x, dataset, M0, W0, eta0, decay, tau)
NewBioNica(l, s, x, dataset, M0, W0, Wr, eta0, decay, tau) ==
  /\ ~calls[l].constructed
  /\ LET call == [ConstructCall(l, "bio_nica", s, x) EXCEPT !.M0 = M0, !.W0 = W0]
     IN  IF BioNicaShapesOk(heap, s, x, M0, W0)
         THEN ConstructReturns(l, call,
                BioNicaNew(heap, s, x, dataset, M0, W0, Wr, eta0, decay, tau))
         ELSE ConstructFails(call)

\* l = two_layer_nsm(s, x, dataset, Whx0, Wgh0, Wyh0, Wyy0, eta0, decay)
NewNsm(l, s, x, dataset, Whx0, Wgh0, Wyh0, Wyy0, Whxr, Wyhr, eta0, decay) ==
  /\ ~calls[l].constructed
  /\ LET call == [ConstructCall(l, "two_layer_nsm", s, x) EXCEPT
                    !.Whx0 = Whx0, !.Wgh0 = Wgh0, !.Wyh0 = Wyh0, !.Wyy0 = Wyy0]
     IN  IF NsmShapesOk(heap, s, x, Whx0, Wgh0, Wyh0, Wyy0)
         THEN ConstructReturns(l, call,
                NsmNew(heap, s, x, dataset, Whx0, Wgh0, Wyh0, Wyy0, Whxr, Wyhr,
                       eta0, decay))
         ELSE ConstructFails(call)

\* l = nonnegative_pca(s, x, dataset, W0, eta0, decay)
NewPca(l, s, x, dataset, W0, Wr, eta0, decay) ==
  /\ ~calls[l].constructed
  /\ LET call == [ConstructCall(l, "nonnegative_pca", s, x) EXCEPT !.W0 = W0]
     IN  IF PcaShapesOk(heap, s, x, W0)
         THEN ConstructReturns(l, call, PcaNew(heap, s, x, dataset, W0, Wr, eta0, decay))
         ELSE ConstructFails(call)

\* Whether the outcome of a call is within the numbers of the model.
Representable(res) ==
  /\ res.outcome # "beyond"
  /\ VFinite(res.y)
  /\ \A i \in 1..Len(res.H) : MFinite(res.H[i])
  /\ VFinite(res.L.x_bar) /\ VFinite(res.L.c_bar)
  /\ VFinite(res.L.h_bar) /\ VFinite(res.L.g_bar)

\* The effect of a method call with result res on learner l.
Commit(l, op, x, j, res) ==
  /\ Representable(res)
  /\ heap' = res.H
  /\ learner' = [learner EXCEPT ![l] = res.L]
  /\ last' = [NoCall EXCEPT !.op = op, !.l = l, !.kind = learner[l].kind,
                !.outcome = res.outcome, !.x = x, !.j = j, !.y = res.y,
                !.pre = View(learner[l], heap), !.raw = res.raw]
  /\ calls' = IF op = "fit_next"
              THEN [calls EXCEPT ![l] =
                      [@ EXCEPT !.made = @ + 1,
                                !.returned = @ + IF res.outcome = "ok" THEN 1 ELSE 0]]
              ELSE calls

\* learner l .fit_next(x)
BioNicaFit(l, x) ==
  /\ learner[l].kind = "bio_nica"
  /\ calls[l].made < MaxCalls
  /\ Commit(l, "fit_next", x, 0, BioNicaFitNext(learner[l], heap, x))

NsmFit(l, x) ==
  /\ learner[l].kind = "two_layer_nsm"
  /\ calls[l].made < MaxCalls
  /\ Commit(l, "fit_next", x, 0, NsmFitNext(learner[l], heap, x))

PcaFit(l, x) ==
  /\ learner[l].kind = "nonnegative_pca"
  /\ calls[l].made < MaxCalls
  /\ Commit(l, "fit_next", x, 0, PcaFitNext(learner[l], heap, x))

\* learner l .flip_weights(j)
BioNicaFlip(l, j) ==
  /\ learner[l].kind = "bio_nica"
  /\ Commit(l, "flip_weights", <<>>, j, BioNicaFlipWeights(learner[l], heap, j))

NsmFlip(l, j) ==
  /\ learner[l].kind = "two_layer_nsm"
  /\ Commit(l, "flip_weights", <<>>, j, NsmFlipWeights(learner[l], heap, j))

PcaFlip(l, j) ==
  /\ learner[l].kind = "nonnegative_pca"
  /\ Commit(l, "flip_weights", <<>>, j, PcaFlipWeights(learner[l], heap, j))

Init ==
  /\ heap = CallerArrays
  /\ learner = [l \in Learners |-> NoLearner]
  /\ last = NoCall
  /\ calls = [l \in Learners |-> [constructed |-> FALSE, made |-> 0, returned |-> 0]]

Next ==
  \E l \in Learners :
    \/ \E a \in BioNicaArgs : \E Wr \in Draw(a.W0, a.s, a.x) :
         NewBioNica(l, a.s, a.x, a.dataset, a.M0, a.W0, Wr,
                    a.hp.eta0, a.hp.decay, a.hp.tau)
    \/ \E a \in NsmArgs : \E Whxr \in Draw(a.Whx0, a.s, a.x), Wyhr \in Draw(a.Wyh0, a.s, a.s) :
         NewNsm(l, a.s, a.x, a.dataset, a.Whx0, a.Wgh0, a.Wyh0, a.Wyy0, Whxr, Wyhr,
                a.hp.eta0, a.hp.decay)
    \/ \E a \in PcaArgs : \E Wr \in Draw(a.W0, a.s, a.x) :
         NewPca(l, a.s, a.x, a.dataset, a.W0, Wr, a.hp.eta0, a.hp.decay)
    \/ \E x \in XInputs : BioNicaFit(l, x)
    \/ \E x \in XInputs : NsmFit(l, x)
    \/ \E x \in XInputs : PcaFit(l, x)
    \/ \E j \in JInputs : BioNicaFlip(l, j)
    \/ \E j \in JInputs : NsmFlip(l, j)
    \/ \E j \in JInputs : PcaFlip(l, j)

Spec == Init /\ [][Next]_vars

\* Two learners built by one caller from the same matrices: the caller's
\* identity as every lateral matrix, the caller's square matrix with an
\* off-diagonal entry as every forward matrix.
Pair == {1, 2}

SharedLateral == CHOOSE r \in CallerRefs : CallerArrays[r] = Eye(2)

SharedForward ==
  CHOOSE r \in CallerRefs : Shape(CallerArrays[r]) = <<2, 2>> /\ CallerArrays[r][2][1] = R(0)
                              /\ CallerArrays[r][1][2] = R(1)

SharedX == {<<R(-1), R(1)>>}

SharedJ == {0}

InitShared ==
  /\ heap = CallerArrays
  /\ learner = [l \in Pair |-> NoLearner]
  /\ last = NoCall
  /\ calls = [l \in Pair |-> [constructed |-> FALSE, made |-> 0, returned |-> 0]]

NextShared ==
  \E l \in Pair :
    \/ NewBioNica(l, 2, 2, "None", SharedLateral, SharedForward, <<>>,
                  NoneR, R(0), NoneR)
    \/ NewNsm(l, 2, 2, "None", SharedForward, SharedLateral, SharedForward,
              SharedLateral, <<>>, <<>>, NoneR, R(0))
    \/ NewPca(l, 2, 2, "None", SharedForward, <<>>, NoneR, R(0))
    \/ \E x \in SharedX : BioNicaFit(l, x)
    \/ \E x \in SharedX : NsmFit(l, x)
    \/ \E x \in SharedX : PcaFit(l, x)
    \/ \E j \in SharedJ : BioNicaFlip(l, j)
    \/ \E j \in SharedJ : NsmFlip(l, j)
    \/ \E j \in SharedJ : PcaFlip(l, j)

SpecShared == InitShared /\ [][NextShared]_vars

---------------------------------------------------------------------------
(* Properties                                                              *)

\* The learner the last call was made on, and its state as the caller sees it.
Callee == learner[last.l]

Now == View(Callee, heap)

Returned(op) == last.op = op /\ last.outcome = "ok"

Failed(op) == last.op = op /\ last.outcome # "ok"

\* The lateral matrix a learner hands to the solver, and the matrix whose
\* rows flip_weights negates.
Lateral(v) == IF last.kind = "bio_nica" THEN v.M ELSE v.Wyy

Flipped(v) == IF last.kind = "two_layer_nsm" THEN v.Wyh ELSE v.W

HasLateral == last.kind \in {"bio_nica", "two_layer_nsm"}

\* C1: whenever fit_next returns, for any of the three learners, the vector
\* it returns has s_dim components and none of them is negative.
C1_OutputNonnegative ==
  Returned("fit_next") =>
    /\ Len(last.y) = Callee.s_dim
    /\ \A i \in 1..Len(last.y) : RLe(R(0), last.y[i])

\* A returned nonnegative_pca output one of whose projections W@x was negative.
C1_Witness ==
  /\ Returned("fit_next")
  /\ last.kind = "nonnegative_pca"
  /\ \E i \in 1..Len(last.y) :
       /\ RLt(MatVec(last.pre.W, last.x)[i], R(0))
       /\ last.y[i] = R(0)

\* The shape the documentation gives each matrix argument of a constructor.
DocumentedShapes(call) ==
  /\ call.W0   # NoneRef => Shape(heap[call.W0])   = <<call.s_dim, call.x_dim>>
  /\ call.M0   # NoneRef => Shape(heap[call.M0])   = <<call.s_dim, call.s_dim>>
  /\ call.Whx0 # NoneRef => Shape(heap[call.Whx0]) = <<call.s_dim, call.x_dim>>
  /\ call.Wgh0 # NoneRef => Shape(heap[call.Wgh0]) = <<call.s_dim, call.s_dim>>
  /\ call.Wyh0 # NoneRef => Shape(heap[call.Wyh0]) = <<call.s_dim, call.s_dim>>
  /\ call.Wyy0 # NoneRef => Shape(heap[call.Wyy0]) = <<call.s_dim, call.s_dim>>

\* C2: a constructor returns exactly when every matrix it is given has its
\* documented shape (lateral matrices s_dim x s_dim, forward matrices
\* s_dim x x_dim, Whx0 of two_layer_nsm among the latter), and fails otherwise.
C2_ConstructorChecksShapes ==
  last.op = "construct" => (last.outcome = "ok" <=> DocumentedShapes(last))

\* C3: fit_next given a vector whose length is not x_dim fails and leaves the
\* learner's step counter, running means and weight matrices as they were.
C3_WrongLengthRejected ==
  (last.op = "fit_next" /\ Len(last.x) # Callee.x_dim) =>
    /\ last.outcome # "ok"
    /\ Now = last.pre

\* C4: flip_weights given an index outside 0..s_dim-1, -1 included, fails and
\* negates no row, for any of the three learners.
C4_FlipIndexChecked ==
  (last.op = "flip_weights" /\ ~(0 <= last.j /\ last.j < Callee.s_dim)) =>
    /\ last.outcome # "ok"
    /\ Now = last.pre

\* C5: construction copies the matrices it is given: no operation on a learner
\* ever changes a matrix the caller passed to a constructor, and a call on one
\* of two learners built from the same matrix leaves the other learner's
\* state as it was.
C5_ConstructionCopies ==
  /\ [] (\A r \in CallerRefs : heap[r] = CallerArrays[r])
  /\ [] [ \A l \in DOMAIN learner :
            l # last'.l => (View(learner[l], heap))' = View(learner[l], heap) ]_vars

\* The step size the last fit_next used, and the rate at which it moved its
\* lateral matrix towards the outer product of the output.
StepUsed == Step([Callee EXCEPT !.t = last.pre.t])

LateralRate == IF last.kind = "bio_nica" THEN RDiv(StepUsed, Callee.tau) ELSE StepUsed

Symmetric(M) == M = Transpose(M)

\* What the guard does: .1 times the identity is added, once, exactly when the
\* determinant of the updated lateral matrix is below 10**-4.
GuardApplied ==
  Lateral(Now) = IF RLt(Det(last.raw), DetThreshold)
                 THEN MAdd(last.raw, MScale(Ridge, Eye(Rows(last.raw))))
                 ELSE last.raw

GuardRaisesDet ==
  RLt(Det(last.raw), DetThreshold) => RLt(Det(last.raw), Det(Lateral(Now)))

\* C6 as stated: for every setting of the hyperparameters, .1 times the
\* identity is added exactly once when the determinant of the updated lateral
\* matrix is below 10**-4, and the determinant is then strictly greater.
C6_GuardAlwaysRaisesDet ==
  (Returned("fit_next") /\ HasLateral) => (GuardApplied /\ GuardRaisesDet)

\* The part of C6 that holds: .1 times the identity is added exactly once when
\* the determinant of the updated lateral matrix is below 10**-4 and nothing
\* is added otherwise; the determinant is then strictly greater provided the
\* lateral matrix was symmetric at entry and its rate is in (0, 1].
GuardRaisesDetAtModestRate ==
  (Returned("fit_next") /\ HasLateral) =>
    /\ GuardApplied
    /\ ( /\ Symmetric(Lateral(last.pre))
         /\ RLt(R(0), LateralRate) /\ RLe(LateralRate, R(1)) ) => GuardRaisesDet

\* The guard fired on a symmetric lateral matrix moved at a rate of at most 1.
GuardFiredAtModestRate ==
  /\ Returned("fit_next") /\ HasLateral
  /\ RLt(Det(last.raw), DetThreshold)
  /\ Symmetric(Lateral(last.pre))
  /\ RLt(R(0), LateralRate) /\ RLe(LateralRate, R(1))
  /\ Lateral(Now) # last.raw

\* C7: after every fit_next that returns, the determinant of the lateral
\* matrix (M of bio_nica, Wyy of two_layer_nsm) is at least 10**-4.
C7_LateralDetAboveThreshold ==
  (Returned("fit_next") /\ HasLateral) => RLe(DetThreshold, Det(Lateral(Now)))

ValidRow == 0 <= last.j /\ last.j < Callee.s_dim

\* C8: flip_weights(j) negates row j of the learner's weight matrix and leaves
\* its other rows as they were, and a second flip_weights(j) right after the
\* first restores the matrix.
C8_FlipNegatesRow ==
  /\ [] ( (Returned("flip_weights") /\ ValidRow) =>
            \A i \in 1..Rows(Flipped(Now)) :
              Flipped(Now)[i] = IF i = last.j + 1
                                THEN VNeg(Flipped(last.pre)[i])
                                ELSE Flipped(last.pre)[i] )
  /\ [] [ ( /\ Returned("flip_weights") /\ ValidRow
            /\ (Returned("flip_weights"))'
            /\ last'.l = last.l /\ last'.j = last.j )
          => (Flipped(Now))' = Flipped(last.pre) ]_vars

\* A flip of a trained learner that changed one row and kept a nonzero one.
C8_Witness ==
  /\ Returned("flip_weights") /\ ValidRow
  /\ Callee.t > 0
  /\ Flipped(Now) # Flipped(last.pre)
  /\ \E i \in 1..Rows(Flipped(Now)) :
       i # last.j + 1 /\ Flipped(Now)[i] # VNeg(Flipped(Now)[i])

\* C9: the step counter is 0 after construction, grows by exactly one with
\* every fit_next that returns, and is changed neither by a failing fit_next
\* nor by flip_weights.
C9_StepCounter ==
  /\ \A l \in DOMAIN learner :
       learner[l].kind # "none" => learner[l].t = calls[l].returned
  /\ last.op = "flip_weights" => Now.t = last.pre.t
  /\ Returned("fit_next") => Now.t = last.pre.t + 1
  /\ Failed("fit_next") => Now.t = last.pre.t

\* A flip after two returned steps, one of them followed by a failed one.
C9_Witness ==
  /\ last.op = "flip_weights"
  /\ Callee.t > 1
  /\ calls[last.l].made = calls[last.l].returned

\* C10 as stated: when the solver rejects its matrix, fit_next of bio_nica and
\* of two_layer_nsm fail with the learner's state as it was before the call.
C10_SolverFailureChangesNothing ==
  (Failed("fit_next") /\ last.outcome = NotPosDef) => Now = last.pre

\* C10, amended: when the solver rejects its matrix, bio_nica is left as it was
\* before the call; two_layer_nsm keeps t, Wyh and Wyy, while its running mean
\* of the input has already taken the new input in.
C10_SolverFailureKeepsOutputLayer ==
  (Failed("fit_next") /\ last.outcome = NotPosDef) =>
    IF last.kind = "bio_nica" THEN Now = last.pre
    ELSE /\ Now.t = last.pre.t
         /\ Now.Wyh = last.pre.Wyh
         /\ Now.Wyy = last.pre.Wyy
         /\ Now.x_bar = RunningMean(last.pre.x_bar, last.x, last.pre.t + 1)

\* The solver rejected Wyy after the whitening layer had moved.
C10_Witness ==
  /\ Failed("fit_next") /\ last.outcome = NotPosDef
  /\ last.kind = "two_layer_nsm"
  /\ Now.x_bar # last.pre.x_bar
  /\ Now.Whx # last.pre.Whx
====
